---------------------------- MODULE Spec2Model ----------------------------
(***************************************************************************)
(* Model of src/bot.py: a Telegram bot that sends a daily article to every *)
(* chat that issued /start, reminds at 15:00, 18:00 and 21:00, and marks   *)
(* the article read when the "Mark as read" button is pressed.             *)
(*                                                                         *)
(* Spec        the bot: commands, button presses, the job queue's daily    *)
(*             jobs and the background scheduler's reminder jobs.  The     *)
(*             outcome of fetch_latest_article is an input of the daily    *)
(*             job.                                                        *)
(* SpecThreads the bot with send_reminder run in the scheduler's thread:   *)
(*             its test and its send are two steps, and the handlers of    *)
(*             the event loop can run between them.                        *)
(* SpecSelect  fetch_latest_article, lines 42-53: from the paragraphs of   *)
(*             the article page to key_words.                              *)
(* SpecEnrich  fetch_latest_article, lines 57-92: the lookups of the       *)
(*             words of key_words, one word a step, up to the return.      *)
(***************************************************************************)
EXTENDS Bags, FiniteSets, Integers, Sequences, TLC

(***************************************************************************)
(* Bounds of the model.                                                    *)
(***************************************************************************)
MaxUsers == 1
MaxArticles == 2
MaxJobs == 2

(***************************************************************************)
(* Identifiers.  A private chat has the id of its user; a group chat has a *)
(* negative id that is no user's id.  Any user can press a button shown in *)
(* the group chat, only user u can press one shown in private chat u.      *)
(***************************************************************************)
Users == 1..MaxUsers
Groups == {-1}
Chats == Users \cup Groups
Articles == 1..MaxArticles
None == 0

\* main(): for hour in [15, 18, 21]
ReminderHours == {15, 18, 21}

\* The times of day at which something is triggered: midnight (start of the
\* day), 09:30 (run_daily) and the three cron hours.  After 21:00 comes the
\* midnight of the next day.
Clock == <<0, 930, 1500, 1800, 2100>>

VARIABLES
    user_articles,   \* the global dict: key -> [article, read]
    job_queue,       \* context.job_queue: bag of jobs [name, chat_id]
    scheduler,       \* the BackgroundScheduler's jobs [name, hour]
    clock,           \* index into Clock: the last trigger time reached
    due,             \* bag of job_queue jobs triggered at 09:30, not yet run
    due_reminders,   \* scheduler jobs triggered at the current hour, not yet run
    buttons,         \* [chat, of]: the messages sent with "Mark as read"
    step,            \* the handler that ran last and its arguments
    sent,            \* the messages the last handler sent
    answer,          \* the callback answer the last handler gave
    acked,           \* per key: marked read since the last stored delivery
    failed,          \* per chat: the last run of send_daily_article failed
    reminding,       \* the chat for which a run of send_reminder has passed
                     \* the test of line 153 and not yet sent; None otherwise
    fetch_pc,        \* fetch_latest_article: "idle", "select", "enrich", "done"
    paragraphs,      \* the texts of the <p> elements of the article body
    key_words,       \* the local key_words
    word_index,      \* the position of the loop `for word in key_words`
    definitions,     \* the local dict definitions, in insertion order
    lookup,          \* the responses of the lookup service to the last word
    result           \* what fetch_latest_article returned: <<>> is None

bot_vars == <<user_articles, job_queue, scheduler, clock, due, due_reminders,
              buttons, step, sent, answer, acked, failed, reminding>>

fetch_vars == <<fetch_pc, paragraphs, key_words, word_index, definitions,
                lookup, result>>

vars == <<bot_vars, fetch_vars>>

(***************************************************************************)
(* Job names.  A name is the list of the parts that the f-string joins     *)
(* with "_", so that two names are equal exactly when the strings are.     *)
(***************************************************************************)
\* run_daily(send_daily_article, ...) without name=: the callback's name
DailyJobName == <<"send_daily_article">>
\* main(): name=f"reminder_{hour}"
SchedulerJobName(hour) == <<"reminder", hour>>
\* button_click(): f"reminder_{user_id}_15", ..._18, ..._21
ReminderJobName(user_id, hour) == <<"reminder", user_id, hour>>

\* dict[key] = value
Put_KeepsExisting(d, key, value) ==
    [k \in DOMAIN d \cup {key} |-> IF k \in DOMAIN d THEN d[k] ELSE value]

Put(d, key, value) ==
    [k \in DOMAIN d \cup {key} |-> IF k = key THEN value ELSE d[k]]

\* context.job_queue.get_jobs_by_name(name)
get_jobs_by_name(name) == {j \in BagToSet(job_queue) : j.name = name}

\* job.schedule_removal() for every job of `jobs`
schedule_removal(jobs) ==
    [j \in BagToSet(job_queue) \ jobs |-> job_queue[j]]

NoStep == [op |-> "none", chat |-> None, user |-> None, article |-> None, of |-> "none"]

\* the lookup service has not been asked
NoLookup ==
    [word |-> << >>,
     freq |-> [status |-> "none", zipf |-> -1, diversity |-> -1],
     defs |-> [status |-> "none", count |-> 0]]

\* no call of fetch_latest_article is modelled step by step
FetchIdle ==
    /\ fetch_pc = "idle"
    /\ paragraphs = << >>
    /\ key_words = << >>
    /\ word_index = 1
    /\ definitions = << >>
    /\ lookup = NoLookup
    /\ result = << >>

InitBot ==
    /\ user_articles = [k \in {} |-> None]
    /\ job_queue = EmptyBag
    /\ scheduler = {[name |-> SchedulerJobName(h), hour |-> h] : h \in ReminderHours}
    /\ clock = 1
    /\ due = EmptyBag
    /\ due_reminders = {}
    /\ buttons = {}
    /\ step = NoStep
    /\ sent = {}
    /\ answer = "none"
    /\ acked = [c \in Chats |-> FALSE]
    /\ failed = [c \in Chats |-> FALSE]
    /\ reminding = None

Init == InitBot /\ FetchIdle


\* user u can act in chat c (send a command, press a button)
Member(u, c) == c \in Groups \/ u = c

Message(to, kind, article) == [to |-> to, kind |-> kind, article |-> article]

\* A message with the "Mark as read" button (lines 137-140 and 156-159): the
\* chat it was sent to, and whether it belongs to the delivery that stored
\* the chat's current record ("current": that delivery's article message and
\* the reminders sent for it) or to an earlier delivery ("earlier").
Button(chat, of) == [chat |-> chat, of |-> of]

\* the buttons after a new delivery to `chat`: the messages it had are now
\* those of an earlier delivery
buttons_after_delivery(chat) ==
    {IF b.chat = chat THEN Button(chat, "earlier") ELSE b : b \in buttons}
      \cup {Button(chat, "current")}

\* send_daily_article(): user_articles[job.chat_id] = {"article": article, "read": False}
stored_KeepsRead(chat_id, article) ==
    Put(user_articles, chat_id,
        [article |-> article,
         read |-> IF chat_id \in DOMAIN user_articles
                  THEN user_articles[chat_id].read ELSE FALSE])

stored(chat_id, article) ==
    Put(user_articles, chat_id, [article |-> article, read |-> FALSE])

\* send_reminder(): job.chat_id in user_articles and not user_articles[job.chat_id]["read"]
unread_NoReadCheck(chat_id) == chat_id \in DOMAIN user_articles

unread(chat_id) ==
    /\ chat_id \in DOMAIN user_articles
    /\ ~user_articles[chat_id].read

\* button_click(): user_id in user_articles
has_record_Always(user_id) == TRUE

has_record(user_id) == user_id \in DOMAIN user_articles

\* start(): run_daily(..., days=(0, 1, 2, 3, 4, 5, 6)): the jobs that the
\* job queue triggers at 09:30 of a day
run_daily_SkipsFailed ==
    [j \in {i \in BagToSet(job_queue) : ~failed[i.chat_id]} |-> job_queue[j]]

run_daily == job_queue

\* start with the new job run at once instead of at the next 09:30
start_RunsJobNow(u, c) ==
    /\ BagCardinality(job_queue) < MaxJobs
    /\ sent' = {Message(c, "greeting", None)}
    /\ job_queue' = job_queue (+) SetToBag({[name |-> DailyJobName, chat_id |-> c]})
    /\ due' = due (+) SetToBag({[name |-> DailyJobName, chat_id |-> c]})
    /\ step' = [op |-> "start", chat |-> c, user |-> u, article |-> None,
                of |-> "none"]
    /\ answer' = "none"
    /\ UNCHANGED <<user_articles, scheduler, clock, due_reminders,
                   buttons, acked, failed, reminding>>

(***************************************************************************)
(* start: the /start command of user u in chat c.  Replies with the        *)
(* greeting and registers one more daily job for the chat.                 *)
(***************************************************************************)
start(u, c) ==
    /\ BagCardinality(job_queue) < MaxJobs
    /\ sent' = {Message(c, "greeting", None)}
    /\ job_queue' = job_queue (+) SetToBag({[name |-> DailyJobName, chat_id |-> c]})
    /\ step' = [op |-> "start", chat |-> c, user |-> u, article |-> None,
                of |-> "none"]
    /\ answer' = "none"
    /\ UNCHANGED <<user_articles, scheduler, clock, due, due_reminders,
                   buttons, acked, failed, reminding>>

\* send_daily_article with the record written before the `if not article` test
send_daily_article_StoresBeforeTest(job, article) ==
    /\ job \in BagToSet(due)
    /\ due' = due (-) SetToBag({job})
    /\ step' = [op |-> "send_daily_article", chat |-> job.chat_id,
                user |-> None, article |-> article, of |-> "none"]
    /\ answer' = "none"
    /\ user_articles' = Put(user_articles, job.chat_id,
                            [article |-> IF article = None THEN 1 ELSE article,
                             read |-> FALSE])
    /\ IF article = None
       THEN /\ sent' = {Message(job.chat_id, "failure", None)}
            /\ failed' = [failed EXCEPT ![job.chat_id] = TRUE]
            /\ UNCHANGED <<buttons, acked>>
       ELSE /\ sent' = {Message(job.chat_id, "article", article)}
            /\ buttons' = buttons_after_delivery(job.chat_id)
            /\ failed' = [failed EXCEPT ![job.chat_id] = FALSE]
            /\ acked' = [acked EXCEPT ![job.chat_id] = FALSE]
    /\ UNCHANGED <<job_queue, scheduler, clock, due_reminders, reminding>>

(***************************************************************************)
(* send_daily_article: the callback of one daily job.  `article` is what   *)
(* fetch_latest_article() returned: an article, or None when any request   *)
(* or any parsing step raised.                                             *)
(***************************************************************************)
send_daily_article(job, article) ==
    /\ job \in BagToSet(due)
    /\ due' = due (-) SetToBag({job})
    /\ step' = [op |-> "send_daily_article", chat |-> job.chat_id,
                user |-> None, article |-> article, of |-> "none"]
    /\ answer' = "none"
    /\ IF article = None
       THEN /\ sent' = {Message(job.chat_id, "failure", None)}
            /\ failed' = [failed EXCEPT ![job.chat_id] = TRUE]
            /\ UNCHANGED <<user_articles, buttons, acked>>
       ELSE /\ user_articles' = stored(job.chat_id, article)
            /\ sent' = {Message(job.chat_id, "article", article)}
            /\ buttons' = buttons_after_delivery(job.chat_id)
            /\ failed' = [failed EXCEPT ![job.chat_id] = FALSE]
            /\ acked' = [acked EXCEPT ![job.chat_id] = FALSE]
    /\ UNCHANGED <<job_queue, scheduler, clock, due_reminders, reminding>>

(***************************************************************************)
(* send_reminder: the callback of one scheduler job.  main() passes the    *)
(* application as the callback's only argument, so nothing in the source   *)
(* sets context.job.chat_id: chat_id is any chat, or None when the context *)
(* has no job and the callback ends before it sends anything.              *)
(***************************************************************************)
send_reminder(sjob, chat_id) ==
    /\ sjob \in due_reminders
    /\ due_reminders' = due_reminders \ {sjob}
    /\ step' = [op |-> "send_reminder", chat |-> chat_id, user |-> None,
                article |-> None, of |-> "none"]
    /\ answer' = "none"
    /\ IF chat_id # None /\ unread(chat_id)
       THEN /\ sent' = {Message(chat_id, "reminder", user_articles[chat_id].article)}
            /\ buttons' = buttons \cup {Button(chat_id, "current")}
       ELSE /\ sent' = {}
            /\ UNCHANGED buttons
    /\ UNCHANGED <<user_articles, job_queue, scheduler, clock, due,
                   acked, failed, reminding>>

\* button_click with the record of the pressed message's chat marked read
button_click_MarksChat(user_id, b) ==
    /\ b \in buttons
    /\ Member(user_id, b.chat)
    /\ step' = [op |-> "button_click", chat |-> b.chat, user |-> user_id,
                article |-> None, of |-> b.of]
    /\ IF has_record(b.chat)
       THEN /\ user_articles' = [k \in DOMAIN user_articles |->
                                    IF k = b.chat
                                    THEN [user_articles[k] EXCEPT !.read = TRUE]
                                    ELSE user_articles[k]]
            /\ answer' = "Article marked as read!"
            /\ sent' = {Message(b.chat, "edit_message_reply_markup", None)}
            /\ job_queue' = schedule_removal(
                   UNION {get_jobs_by_name(ReminderJobName(user_id, h)) :
                              h \in ReminderHours})
            /\ acked' = [acked EXCEPT ![b.chat] = TRUE]
       ELSE /\ answer' = "No active article to mark as read."
            /\ sent' = {}
            /\ UNCHANGED <<user_articles, job_queue, acked>>
    /\ UNCHANGED <<scheduler, clock, due, due_reminders, buttons, failed,
                   reminding>>

(***************************************************************************)
(* button_click: user_id presses the button of message b (the only         *)
(* callback_data the bot ever attaches is 'mark_read').  The handler       *)
(* removes the button of the pressed message only after it has answered,   *)
(* so the press can be repeated before the edit arrives, and the reminders *)
(* of the same delivery keep their buttons: a message sent with a button   *)
(* stays in `buttons`, and the edit is listed in `sent`.                   *)
(***************************************************************************)
button_click(user_id, b) ==
    /\ b \in buttons
    /\ Member(user_id, b.chat)
    /\ step' = [op |-> "button_click", chat |-> b.chat, user |-> user_id,
                article |-> None, of |-> b.of]
    /\ IF has_record(user_id)
       THEN /\ user_articles' = [k \in DOMAIN user_articles |->
                                    IF k = user_id
                                    THEN [user_articles[k] EXCEPT !.read = TRUE]
                                    ELSE user_articles[k]]
            /\ answer' = "Article marked as read!"
            /\ sent' = {Message(b.chat, "edit_message_reply_markup", None)}
            /\ job_queue' = schedule_removal(
                   UNION {get_jobs_by_name(ReminderJobName(user_id, h)) :
                              h \in ReminderHours})
            /\ acked' = [acked EXCEPT ![user_id] = TRUE]
       ELSE /\ answer' = "No active article to mark as read."
            /\ sent' = {}
            /\ UNCHANGED <<user_articles, job_queue, acked>>
    /\ UNCHANGED <<scheduler, clock, due, due_reminders, buttons, failed,
                   reminding>>

(***************************************************************************)
(* The triggers: time passes to the next trigger time once the jobs of the *)
(* current one have run.  At 09:30 every daily job of the job queue is     *)
(* triggered (days=(0,...,6)); at 15:00, 18:00 and 21:00 the scheduler job *)
(* of that hour is.                                                        *)
(***************************************************************************)
Tick ==
    /\ due = EmptyBag
    /\ due_reminders = {}
    /\ clock' = IF clock < Len(Clock) THEN clock + 1 ELSE 1
    /\ due' = IF Clock[clock'] = 930 THEN run_daily ELSE EmptyBag
    /\ due_reminders' = {j \in scheduler : j.hour * 100 = Clock[clock']}
    /\ step' = [op |-> "tick", chat |-> None, user |-> None, article |-> None,
                of |-> "none"]
    /\ sent' = {}
    /\ answer' = "none"
    /\ UNCHANGED <<user_articles, job_queue, scheduler, buttons, acked, failed,
                   reminding>>

Start ==
    /\ \E u \in Users, c \in Chats : Member(u, c) /\ start(u, c)
    /\ UNCHANGED fetch_vars

SendDailyArticle ==
    /\ \E job \in BagToSet(due), article \in Articles \cup {None} :
           send_daily_article(job, article)
    /\ UNCHANGED fetch_vars

SendReminder ==
    /\ \E sjob \in due_reminders, chat_id \in Chats \cup {None} :
           send_reminder(sjob, chat_id)
    /\ UNCHANGED fetch_vars

ButtonClick ==
    /\ \E user_id \in Users, b \in buttons : button_click(user_id, b)
    /\ UNCHANGED fetch_vars

Triggers == Tick /\ UNCHANGED fetch_vars

Next == Start \/ SendDailyArticle \/ SendReminder \/ ButtonClick \/ Triggers

Spec == Init /\ [][Next]_vars

TypeOK ==
    /\ DOMAIN user_articles \subseteq Chats
    /\ \A k \in DOMAIN user_articles :
           user_articles[k].article \in Articles /\ user_articles[k].read \in BOOLEAN
    /\ clock \in 1..Len(Clock)
    /\ BagCardinality(job_queue) <= MaxJobs

(***************************************************************************)
(* The reminder jobs that are scheduled and can remind key k: the          *)
(* scheduler's cron jobs, which run send_reminder at every reminder hour,  *)
(* and the job queue's jobs under the names button_click looks up for k.   *)
(***************************************************************************)
DailyJob(c) == [name |-> DailyJobName, chat_id |-> c]

PendingReminderJobs(k) ==
    scheduler \cup UNION {get_jobs_by_name(ReminderJobName(k, h)) : h \in ReminderHours}

Acknowledged == "Article marked as read!"

NoActiveArticle == "No active article to mark as read."

\* C1: in every reachable state, a key whose record has read = TRUE has no
\* reminder job left scheduled (the acknowledgment cancelled them all).
C1_ReadHasNoPendingReminder ==
    \A k \in DOMAIN user_articles :
        user_articles[k].read => PendingReminderJobs(k) = {}

\* C2: an acknowledgment of user u that directly follows an acknowledgment of
\* u answered Acknowledged is not answered Acknowledged again (it is
\* AlreadyRead), changes nothing, and finds no reminder job of u pending.
C2_SecondAckIsAlreadyRead ==
    [][\A u \in Users :
          (/\ step.op = "button_click" /\ step.user = u /\ answer = Acknowledged
           /\ step'.op = "button_click" /\ step'.user = u)
          => /\ answer' # Acknowledged
             /\ sent' = {}
             /\ UNCHANGED <<user_articles, job_queue>>
             /\ PendingReminderJobs(u) = {}]_vars

\* C3: a button press of a user who has no record is answered "No active
\* article to mark as read." and leaves the whole map user_articles as it
\* was: no record is created, no other key's record changes.
C3_NoRecordNoActiveArticle ==
    [][\A u \in Users :
          (step'.op = "button_click" /\ step'.user = u
           /\ u \notin DOMAIN user_articles)
          => /\ answer' = NoActiveArticle
             /\ user_articles' = user_articles]_vars

C3_Witness ==
    /\ step.op = "button_click"
    /\ step.user \notin DOMAIN user_articles
    /\ answer = NoActiveArticle
    /\ user_articles # [k \in {} |-> None]

\* C4: once key k has been marked read and no delivery has been stored for k
\* since, no run of send_reminder sends a message to k.
C4_NoReminderAfterAck ==
    [][\A k \in Chats :
          (acked[k] /\ step'.op = "send_reminder")
          => \A m \in sent' : m.to # k]_vars

C4_Witness ==
    /\ step.op = "send_reminder"
    /\ step.chat # None
    /\ acked[step.chat]
    /\ sent = {}

\* C5: every chat gets at most one run of send_daily_article (article message
\* or failure notice) per day: when one has run for the chat, no other run
\* for that chat is triggered for the same day.
C5_OneDeliveryPerDay ==
    [][\A c \in Chats :
          (step'.op = "send_daily_article" /\ step'.chat = c)
          => CopiesIn(DailyJob(c), due') = 0]_vars

\* What a failed run of send_daily_article does (C6, first part): the failure
\* notice and nothing else is sent, no job is scheduled or removed, no record
\* changes.
FailedDeliveryEffect ==
    \A c \in Chats :
        (step'.op = "send_daily_article" /\ step'.chat = c /\ step'.article = None)
        => /\ sent' = {Message(c, "failure", None)}
           /\ UNCHANGED <<user_articles, job_queue, scheduler, buttons>>

IsRedelivery(c) ==
    /\ step'.op = "send_daily_article"
    /\ step'.chat = c
    /\ step'.article # None
    /\ c \in DOMAIN user_articles

C10_FailureIsolated ==
    [][/\ \A c \in Chats :
             (step'.op = "send_daily_article" /\ step'.chat = c
              /\ step'.article = None)
             => /\ user_articles' = user_articles
                /\ job_queue' = job_queue
                /\ due' = due (-) SetToBag({DailyJob(c)})
       /\ \A c \in Chats :
             (failed[c] /\ step'.op = "tick" /\ Clock[clock'] = 930)
             => CopiesIn(DailyJob(c), due') >= 1]_vars

C10_Witness ==
    /\ step.op = "send_daily_article"
    /\ \E c \in Chats :
           /\ c # step.chat
           /\ failed[c]
           /\ CopiesIn(DailyJob(c), due) >= 1
           /\ CopiesIn(DailyJob(c), due) = CopiesIn(DailyJob(c), job_queue)
    /\ step.article # None

\* C11: right after a successful run of send_daily_article has stored article
\* X for a chat, the lookup that send_reminder makes for the chat finds the
\* record, finds it unread, and reads article X from it.
C11_StoredThenLookedUp ==
    [][\A c \in Chats :
          (step'.op = "send_daily_article" /\ step'.chat = c
           /\ step'.article # None)
          => /\ unread(c)'
             /\ user_articles'[c].article = step'.article
             /\ user_articles'[c].read = FALSE]_vars

C11_Witness ==
    /\ step.op = "send_daily_article"
    /\ step.article = MaxArticles
    /\ Button(step.chat, "earlier") \in buttons
    /\ unread(step.chat)
    /\ user_articles[step.chat].article = step.article
    /\ \E c \in DOMAIN user_articles :
           c # step.chat /\ user_articles[c].article # step.article

\* C12: /start sends the greeting and no article, creates and changes no
\* record and triggers no job; an article message is sent to a chat only by a
\* daily job of the chat that is due, and a job becomes due only when the
\* clock reaches 09:30.
C12_StartOnlyRegisters ==
    [][/\ step'.op = "start"
          => /\ user_articles' = user_articles
             /\ due' = due
             /\ sent' = {Message(step'.chat, "greeting", None)}
             /\ job_queue' = job_queue (+) SetToBag({DailyJob(step'.chat)})
       /\ \A m \in sent' :
             m.kind = "article"
             => /\ step'.op = "send_daily_article"
                /\ CopiesIn(DailyJob(m.to), due) >= 1
       /\ \A c \in Chats :
             CopiesIn(DailyJob(c), due') > CopiesIn(DailyJob(c), due)
             => step'.op = "tick" /\ Clock[clock'] = 930]_vars

C12_Witness ==
    /\ step.op = "start"
    /\ Clock[clock] >= 930
    /\ step.chat \notin DOMAIN user_articles
    /\ due = EmptyBag
    /\ CopiesIn(DailyJob(step.chat), job_queue) >= 1
    /\ user_articles # [k \in {} |-> None]

\* C13: the run of send_reminder at a reminder hour sends a reminder to
\* every chat whose record is unread at that moment, and to no other chat.
C13_ReminderHourRemindsAllUnread ==
    [][step'.op = "send_reminder"
       => \A k \in Chats :
             unread(k) <=> \E m \in sent' : m.kind = "reminder" /\ m.to = k]_vars

\* C15: the record of key k changes only in two ways: a button press of user
\* k sets read from FALSE to TRUE and keeps the article, and a successful run
\* of send_daily_article for chat k stores its article with read = FALSE.
\* Reminders, /start, failed deliveries, triggers and the presses and
\* deliveries of other keys leave the record as it was; no record is removed.
C15_RecordStateMachine ==
    [][\A k \in Chats :
          /\ k \in DOMAIN user_articles => k \in DOMAIN user_articles'
          /\ (/\ k \in DOMAIN user_articles'
              /\ (k \in DOMAIN user_articles => user_articles'[k] # user_articles[k]))
             => \/ /\ step'.op = "button_click"
                   /\ step'.user = k
                   /\ k \in DOMAIN user_articles
                   /\ ~user_articles[k].read
                   /\ user_articles'[k] = [user_articles[k] EXCEPT !.read = TRUE]
                \/ /\ step'.op = "send_daily_article"
                   /\ step'.chat = k
                   /\ step'.article # None
                   /\ user_articles'[k] = [article |-> step'.article, read |-> FALSE]]_vars

C15_Witness ==
    /\ step.op = "button_click"
    /\ answer = Acknowledged
    /\ step.chat # step.user
    /\ user_articles[step.user].read
    /\ unread(step.chat)

\* C18: a press of the button of a message of an earlier delivery, made after
\* a newer article has been delivered to the chat, does not set read to TRUE
\* for the newer article: it changes no record.
C18_EarlierButtonLeavesNewerUnread ==
    [][(step'.op = "button_click" /\ step'.of = "earlier")
       => user_articles' = user_articles]_vars

\* C19: a press of the button of a message of the chat's current delivery, by
\* any user who can press it, is answered "Article marked as read!" and sets
\* read to TRUE in the record that the delivery stored for the chat.
C19_PressFindsDeliveryRecord ==
    [][(step'.op = "button_click" /\ step'.of = "current")
       => /\ answer' = Acknowledged
          /\ user_articles'[step'.chat].read]_vars

(***************************************************************************)
(* send_reminder in the scheduler's thread.  The BackgroundScheduler of     *)
(* main() runs its jobs in threads of its own, while button_click and      *)
(* send_daily_article run in the event loop of run_polling, and no lock    *)
(* guards user_articles: between the test of line 153 and the send of      *)
(* lines 161-166 the event loop's handlers can run.                        *)
(***************************************************************************)
\* lines 152-153: job = context.job and the test
send_reminder_test(sjob, chat_id) ==
    /\ reminding = None
    /\ sjob \in due_reminders
    /\ due_reminders' = due_reminders \ {sjob}
    /\ reminding' = IF chat_id # None /\ unread(chat_id) THEN chat_id ELSE None
    /\ step' = [op |-> "send_reminder_test", chat |-> chat_id, user |-> None,
                article |-> None, of |-> "none"]
    /\ sent' = {}
    /\ answer' = "none"
    /\ UNCHANGED <<user_articles, job_queue, scheduler, clock, due, buttons,
                   acked, failed>>

\* lines 154-166: article = user_articles[job.chat_id]["article"] and the send
send_reminder_message ==
    /\ reminding # None
    /\ sent' = {Message(reminding, "reminder", user_articles[reminding].article)}
    /\ buttons' = buttons \cup {Button(reminding, "current")}
    /\ step' = [op |-> "send_reminder_message", chat |-> reminding,
                user |-> None, article |-> None, of |-> "none"]
    /\ answer' = "none"
    /\ reminding' = None
    /\ UNCHANGED <<user_articles, job_queue, scheduler, clock, due,
                   due_reminders, acked, failed>>

SendReminderTest ==
    /\ \E sjob \in due_reminders, chat_id \in Chats \cup {None} :
           send_reminder_test(sjob, chat_id)
    /\ UNCHANGED fetch_vars

SendReminderMessage == send_reminder_message /\ UNCHANGED fetch_vars

NextThreads ==
    \/ Start
    \/ SendDailyArticle
    \/ ButtonClick
    \/ Triggers
    \/ SendReminderTest
    \/ SendReminderMessage

SpecThreads == Init /\ [][NextThreads]_vars

RawWordLimit == 20
\* len(clean_word) > 5
MinWordLength == 5
\* list(set(clean_words))[:5]
KeyWordLimit == 5

UpperCase == <<"A", "B", "C", "D", "E", "F", "G", "H", "I", "J", "K", "L", "M", "N", "O", "P", "Q", "R", "S", "T", "U", "V", "W", "X", "Y", "Z">>

LowerCase == <<"a", "b", "c", "d", "e", "f", "g", "h", "i", "j", "k", "l", "m", "n", "o", "p", "q", "r", "s", "t", "u", "v", "w", "x", "y", "z">>

Digits == {"0", "1", "2", "3", "4", "5", "6", "7", "8", "9"}

Whitespace == {" "}

Range(f) == {f[i] : i \in DOMAIN f}

Min(a, b) == IF a <= b THEN a ELSE b

\* str.lower() of one character
lower(c) ==
    IF \E i \in DOMAIN UpperCase : UpperCase[i] = c
    THEN LowerCase[CHOOSE i \in DOMAIN UpperCase : UpperCase[i] = c]
    ELSE c

\* the characters that the pattern [^\w'] leaves in place: \w and the apostrophe
Kept(c) == c \in Range(LowerCase) \cup Range(UpperCase) \cup Digits \cup {"_", "'"}

\* re.sub(r"[^\w']", '', word.lower())
clean_word(word) ==
    SelectSeq([i \in DOMAIN word |-> lower(word[i])], Kept)

\* " ".join(texts)
RECURSIVE join(_)
join(texts) ==
    IF texts = << >> THEN << >>
    ELSE IF Len(texts) = 1 THEN texts[1]
    ELSE texts[1] \o <<" ">> \o join(Tail(texts))

\* text.split(): the maximal runs of characters that are not whitespace
RECURSIVE split(_)
split(text) ==
    IF text = << >> THEN << >>
    ELSE IF text[1] \in Whitespace THEN split(Tail(text))
    ELSE LET n == IF \E i \in DOMAIN text : text[i] \in Whitespace
                  THEN (CHOOSE i \in DOMAIN text :
                           /\ text[i] \in Whitespace
                           /\ \A j \in 1..(i - 1) : text[j] \notin Whitespace) - 1
                  ELSE Len(text)
         IN  <<SubSeq(text, 1, n)>> \o split(SubSeq(text, n + 1, Len(text)))

\* raw_words = content.split()[:20]
raw_words(content) ==
    SubSeq(split(content), 1, Min(RawWordLimit, Len(split(content))))

IsLong(w) == Len(w) > MinWordLength

\* the loop of lines 45-51
clean_words(content) ==
    SelectSeq([i \in DOMAIN raw_words(content) |-> clean_word(raw_words(content)[i])],
              IsLong)

\* list(set(words))[:5]: a set has no defined order, so the list is the
\* first 5 words of any order of the distinct words
list_set_prefix(words) ==
    LET distinct == Range(words)
        k == Min(KeyWordLimit, Cardinality(distinct))
    IN  {q \in [1..k -> distinct] : Cardinality(Range(q)) = k}

(***************************************************************************)
(* The article bodies of the model: the runs of at most MaxParagraphs      *)
(* paragraphs of Corpus.                                                   *)
(***************************************************************************)
MaxParagraphs == 6

Corpus ==
    <<\* The  Planet, planets' orbits.
      <<"T", "h", "e", " ", " ", "P", "l", "a", "n", "e", "t", ",", " ", "p", "l", "a", "n", "e", "t", "s", "'", " ", "o", "r", "b", "i", "t", "s", ".">>,
      \* co-op!
      <<"c", "o", "-", "o", "p", "!">>,
      \* PLANET galaxy
      <<"P", "L", "A", "N", "E", "T", " ", "g", "a", "l", "a", "x", "y">>,
      \* a nebula is not a quasar
      <<"a", " ", "n", "e", "b", "u", "l", "a", " ", "i", "s", " ", "n", "o", "t", " ", "a", " ", "q", "u", "a", "s", "a", "r">>,
      \* of an so we to it by at in on
      <<"o", "f", " ", "a", "n", " ", "s", "o", " ", "w", "e", " ", "t", "o", " ", "i", "t", " ", "b", "y", " ", "a", "t", " ", "i", "n", " ", "o", "n">>,
      \* comets Comets? meteor
      <<"c", "o", "m", "e", "t", "s", " ", "C", "o", "m", "e", "t", "s", "?", " ", "m", "e", "t", "e", "o", "r">>,
      \* up no
      <<"u", "p", " ", "n", "o">>>>

Bodies ==
    {SubSeq(Corpus, w[1], w[2]) :
        w \in {v \in (1..(Len(Corpus) + 1)) \X (0..Len(Corpus)) :
                  v[1] - 1 <= v[2] /\ v[2] - v[1] + 1 <= MaxParagraphs}}

\* lines 42-53: content, raw_words, clean_words, key_words; `words` is the
\* list that list(set(clean_words))[:5] gave
select_key_words(words) ==
    /\ fetch_pc = "select"
    /\ key_words' = words
    /\ fetch_pc' = "enrich"
    /\ UNCHANGED <<paragraphs, word_index, definitions, lookup, result>>

SelectKeyWords ==
    /\ \E words \in list_set_prefix(clean_words(join(paragraphs))) :
           select_key_words(words)
    /\ UNCHANGED bot_vars

InitSelect ==
    /\ InitBot
    /\ fetch_pc = "select"
    /\ paragraphs \in Bodies
    /\ key_words = << >>
    /\ word_index = 1
    /\ definitions = << >>
    /\ lookup = NoLookup
    /\ result = << >>

NextSelect == SelectKeyWords

SpecSelect == InitSelect /\ [][NextSelect]_vars

\* the words of `words` in the order of their first occurrence, each once
RECURSIVE FirstSeen(_)
FirstSeen(words) ==
    IF words = << >> THEN << >>
    ELSE LET front == FirstSeen(SubSeq(words, 1, Len(words) - 1))
             last == words[Len(words)]
         IN  IF last \in Range(front) THEN front ELSE Append(front, last)

\* C9: key_words is the list of the distinct normalized words longer than 5
\* characters among the first 20 words of the body, in first-seen order, cut
\* to the first 5 of that order (so the same text always gives the same list).
C9_KeyWordsFirstSeenOrder ==
    fetch_pc = "enrich"
    => LET seen == FirstSeen(clean_words(join(paragraphs)))
       IN  key_words = SubSeq(seen, 1, Min(KeyWordLimit, Len(seen)))

(***************************************************************************)
(* fetch_latest_article, lines 57-92: the lookups.  Each step handles one  *)
(* word of key_words; the responses of the lookup service are inputs.      *)
(* zipf is counted in tenths and diversity in hundredths.                  *)
(***************************************************************************)
MaxTerms == 3
MaxDefs == 4

\* zipf <= 4.5
ZipfMax == 45
\* diversity <= 0.3
DiversityMax == 30
\* defs[:3]
DefinitionLimit == 3

\* a key that the frequency data does not have
Missing == -1

ZipfValues == {Missing, ZipfMax, ZipfMax + 1}

DiversityValues == {Missing, DiversityMax, DiversityMax + 1}

\* status "error": requests.get raised (no connection, timeout)
Unanswered(status) == [status |-> status, zipf |-> Missing, diversity |-> Missing]

FreqResponses ==
    {Unanswered("error"), Unanswered("404")}
      \cup {[status |-> "200", zipf |-> z, diversity |-> d] :
                z \in ZipfValues, d \in DiversityValues}

DefsResponses ==
    {[status |-> "error", count |-> 0], [status |-> "404", count |-> 0]}
      \cup {[status |-> "200", count |-> n] : n \in 0..MaxDefs}

NotRequested == [status |-> "none", count |-> 0]

\* freq_data.get("zipf", 0)
zipf(freq) == IF freq.zipf = Missing THEN 0 ELSE freq.zipf

\* freq_data.get("diversity", 1)
diversity_MissingIsRare(freq) == IF freq.diversity = Missing THEN 0 ELSE freq.diversity

diversity(freq) == IF freq.diversity = Missing THEN 100 ELSE freq.diversity

\* zipf <= 4.5 and diversity <= 0.3
qualifies(freq) == zipf(freq) <= ZipfMax /\ diversity(freq) <= DiversityMax

\* the definitions of a response, in the order of the service
service_definitions(defs) == [i \in 1..defs.count |-> i]

NoDefinitionFound == [text |-> "No definition found."]

\* lines 80-83: the value stored for a word
definition_value_NoSentinel(defs) ==
    [list |-> SubSeq(service_definitions(defs), 1,
                     Min(DefinitionLimit, Len(service_definitions(defs))))]

definition_value(defs) ==
    IF service_definitions(defs) # << >>
    THEN [list |-> SubSeq(service_definitions(defs), 1,
                          Min(DefinitionLimit, Len(service_definitions(defs))))]
    ELSE NoDefinitionFound

\* except Exception: return None
raise_exception ==
    /\ fetch_pc' = "done"
    /\ result' = << >>
    /\ UNCHANGED <<word_index, definitions>>

\* lines 63-83: one pass of the loop, for the word at word_index
enrich_word(freq, defs) ==
    /\ fetch_pc = "enrich"
    /\ word_index <= Len(key_words)
    /\ IF freq.status = "error"
       THEN /\ raise_exception
            /\ lookup' = [word |-> key_words[word_index], freq |-> freq,
                          defs |-> NotRequested]
       ELSE IF freq.status = "200" /\ qualifies(freq)
       THEN /\ lookup' = [word |-> key_words[word_index], freq |-> freq,
                          defs |-> defs]
            /\ IF defs.status = "error"
               THEN raise_exception
               ELSE /\ definitions' =
                          IF defs.status = "200"
                          THEN Append(definitions,
                                      [word |-> key_words[word_index],
                                       defs |-> definition_value(defs)])
                          ELSE definitions
                    /\ word_index' = word_index + 1
                    /\ UNCHANGED <<fetch_pc, result>>
       ELSE /\ lookup' = [word |-> key_words[word_index], freq |-> freq,
                          defs |-> NotRequested]
            /\ word_index' = word_index + 1
            /\ UNCHANGED <<fetch_pc, result, definitions>>
    /\ UNCHANGED <<paragraphs, key_words>>

\* lines 85-89: the return after the loop
return_article ==
    /\ fetch_pc = "enrich"
    /\ word_index > Len(key_words)
    /\ result' = <<[title |-> "title", link |-> "link", key_words |-> definitions]>>
    /\ fetch_pc' = "done"
    /\ UNCHANGED <<paragraphs, key_words, word_index, definitions, lookup>>

EnrichWord ==
    /\ \E freq \in FreqResponses, defs \in DefsResponses : enrich_word(freq, defs)
    /\ UNCHANGED bot_vars

ReturnArticle == return_article /\ UNCHANGED bot_vars

\* the lists key_words of the model: up to MaxTerms distinct words
KeyWordLists ==
    LET seen == FirstSeen(clean_words(join(Corpus)))
        words == Range(SubSeq(seen, 1, Min(MaxTerms, Len(seen))))
    IN  UNION {{q \in [1..k -> words] : Cardinality(Range(q)) = k} :
                   k \in 0..Min(KeyWordLimit, Cardinality(words))}

InitEnrich ==
    /\ InitBot
    /\ fetch_pc = "enrich"
    /\ key_words \in KeyWordLists
    /\ paragraphs = key_words
    /\ word_index = 1
    /\ definitions = << >>
    /\ lookup = NoLookup
    /\ result = << >>

NextEnrich == EnrichWord \/ ReturnArticle

SpecEnrich == InitEnrich /\ [][NextEnrich]_vars

\* C8: an error of the lookup service for one word does not fail the fetch:
\* the fetch returns an article, and its key-term mapping holds the words
\* whose lookups succeeded.
C8_LookupErrorIsolated ==
    fetch_pc = "done"
    => /\ result # << >>
       /\ result[1].key_words = definitions

\* a pass of the loop (it sets lookup to the word and its responses) in which
\* the service answered with these statuses
Looked(status_freq, status_defs) ==
    /\ fetch_pc = "enrich"
    /\ lookup' # lookup
    /\ lookup'.freq.status = status_freq
    /\ lookup'.defs.status = status_defs

\* C16: a non-200 response to the frequency request or to the definitions
\* request drops the word and the loop goes on to the next word (the fetch
\* does not end with None); the definitions of a word are requested, and the
\* word is added to the result, only after a frequency response of status
\* 200 with zipf <= 4.5 (0 when missing) and a diversity that is present and
\* <= 0.3.
C16_Non200DropsTerm ==
    [][/\ (Looked("404", "none") \/ Looked("200", "404"))
          => /\ fetch_pc' = "enrich"
             /\ word_index' = word_index + 1
             /\ definitions' = definitions
             /\ result' = result
       /\ (/\ fetch_pc = "enrich"
           /\ lookup' # lookup
           /\ (definitions' # definitions \/ lookup'.defs.status # "none"))
          => /\ lookup'.freq.status = "200"
             /\ lookup'.freq.zipf = Missing \/ lookup'.freq.zipf <= ZipfMax
             /\ lookup'.freq.diversity # Missing
             /\ lookup'.freq.diversity <= DiversityMax]_vars

C16_Witness ==
    /\ fetch_pc = "done"
    /\ result # << >>
    /\ Len(key_words) = MaxTerms
    /\ Len(result[1].key_words) = 1
    /\ lookup.freq.status = "200"
    /\ lookup.defs.status = "404"

\* C17: every word of the key-term mapping has either the list of the first
\* 3 definitions that the service returned, in the service's order (all of
\* them when it returned 1 to 3), or, when it returned none, the value "No
\* definition found."; no word has an empty list, and a word whose
\* definitions response is 200 is added whether or not it has definitions.
C17_DefinitionsOrSentinel ==
    [][/\ \A i \in DOMAIN definitions' :
             \/ definitions'[i].defs = NoDefinitionFound
             \/ /\ DOMAIN definitions'[i].defs = {"list"}
                /\ Len(definitions'[i].defs.list) \in 1..DefinitionLimit
       /\ Looked("200", "200")
          => LET n == lookup'.defs.count
             IN  definitions' =
                     Append(definitions,
                            [word |-> key_words[word_index],
                             defs |-> IF n = 0 THEN NoDefinitionFound
                                      ELSE [list |-> [i \in 1..Min(n, DefinitionLimit) |-> i]]])]_vars

C17_Witness ==
    /\ fetch_pc = "done"
    /\ result # << >>
    /\ lookup.defs.status = "200"
    /\ lookup.defs.count > DefinitionLimit
    /\ \E i, j \in DOMAIN result[1].key_words :
           /\ result[1].key_words[i].defs = NoDefinitionFound
           /\ result[1].key_words[j].defs = [list |-> <<1, 2, 3>>]

=============================================================================
